---- MODULE Spec2Model ----
(***************************************************************************)
(* Model of src/main.cc: class demo (the proximity graph of cities, the    *)
(* per-frame propagation tick, the dynamic city buffer and the two-pass    *)
(* render) and the frame loop of main().                                   *)
(*                                                                         *)
(* Numbers.  connection::elapsed is a 32-bit float.  Every value it takes  *)
(* is a multiple of 2^-29, so it is kept as an integer count of 2^-29      *)
(* (ONE = 2^29 is 1.0) and `elapsed += 0.02` is computed as the hardware   *)
(* computes it: the exact sum, rounded to the nearest float (AddStep).     *)
(* Vertex positions are unit vectors with rational coordinates, kept as    *)
(* integer triples over Radius.  cur_time_ is kept in units of 1/120 s     *)
(* (the rounding of that accumulator is not modelled: nothing reads it     *)
(* but the globe's rotation angle).                                        *)
(***************************************************************************)
EXTENDS Integers, Sequences, FiniteSets, TLC

VARIABLES
    graph,              \* graph_: vertex index (0-based) -> [position, connections]
    cur_time,           \* cur_time_, in units of 1/120 s
    num_active_cities,  \* num_active_cities_
    cities_data,        \* contents written through map_vertex_data() this frame
    depth_mask,         \* the GL depth-write flag (glDepthMask), kept across frames
    calls,              \* the backend calls of the last render(), in order
    cascades,           \* the cascade scans of the last step_connections(), in order
    pc,                 \* position inside render_and_step (index into PhaseOrder)
    frame_num,          \* frames completed by the loop of main()
    dt,                 \* the dt main() passes to render_and_step (fixed per build)
    seeds,              \* history: the (i, j) whose rand() draw seeded the edge active
    expect,             \* history: the initial graph advanced once per completed frame
    shown,              \* history: the edge state read by the last render()
    ticks,              \* history: the number of step_connections() calls so far
    scanned             \* history: per edge, the tick since which it is active (0
                        \* when seeded), the ticks in which it ran the cascade scan
                        \* and the edges those scans switched on

vars == <<graph, cur_time, num_active_cities, cities_data, depth_mask, calls,
          cascades, pc, frame_num, dt, seeds, expect, shown, ticks, scanned>>

-----------------------------------------------------------------------------
(* Bounds of the model *)

\* at most this many edges draw rand() % 150 == 0 at construction
MaxSeeds == 2
\* the frame loop is followed for this many frames
MaxFrames == 160

-----------------------------------------------------------------------------
(* Program constants *)

\* 1.0 in units of 2^-29 (the comparisons elapsed >= 1.0)
ONE == 536870912
\* 0.02 in units of 2^-29 is 10737418.24: STEP is its integer part
STEP == 10737418
\* `if (++activated == 3) break;`
MaxActivated == 3
\* min_distance = 0.75 = MinDistNum / MinDistDen
MinDistNum == 3
MinDistDen == 4
\* positions are unit vectors: integer coordinates (x, y, z) / Radius
Radius == 7
\* DUMP_FRAMES: total_frames
total_frames == 500
\* dt = 1/60 s and 1/40 s in units of 1/120 s
DtDefault == 2
DtDump == 3

-----------------------------------------------------------------------------
(* 32-bit float arithmetic on elapsed *)

\* the spacing of floats around a value s (in units of 2^-29): 2^-29 below
\* 2^-5, doubling with every binade up to 2^-23 in [1, 2)
Ulp(s) ==
    IF s < 16777216 THEN 1
    ELSE IF s < 33554432 THEN 2
    ELSE IF s < 67108864 THEN 4
    ELSE IF s < 134217728 THEN 8
    ELSE IF s < 268435456 THEN 16
    ELSE IF s < 536870912 THEN 32
    ELSE 64

\* (float)((double)e + 0.02).  The exact sum is s + 0.24 units with
\* s = e + STEP; it is rounded to the nearest multiple of Ulp(s).  With r the
\* remainder of s, the sum lies above the midpoint exactly when 2r >= Ulp
\* (the .24 excludes ties and is far larger than the double's own rounding).
AddStep(e) ==
    LET s == e + STEP
        u == Ulp(s)
        r == s % u
    IN  IF 2 * r >= u THEN s - r + u ELSE s - r

\* Alpha without the std::min
AlphaNoClamp(elapsed) == 2 * elapsed

\* std::min(1.0f, elapsed * 2.0f): doubling a float is exact
Alpha(elapsed) == IF 2 * elapsed < ONE THEN 2 * elapsed ELSE ONE

-----------------------------------------------------------------------------
(* The city list (get_cities(), after to_position) *)

PH  == <<6, 3, 2>>
PL1 == <<3, 6, 2>>
PL2 == <<3, 2, 6>>
PL3 == <<6, -2, 3>>
PL4 == <<6, 2, -3>>
PA  == <<6, 2, 3>>
PB  == <<7, 0, 0>>
PZ  == <<-7, 0, 0>>

\* the city lists the model is run on: none, two far apart, two close, a
\* triangle, a hub with four mutually distant neighbours (hub first), and the
\* same hub placed after two of its neighbours with an isolated city
CityLists ==
    { << >>,
      <<PH, PZ>>,
      <<PH, PL1>>,
      <<PH, PA, PB>>,
      <<PH, PL1, PL2, PL3, PL4>>,
      <<PL1, PL2, PH, PZ, PL3, PL4>> }

Size(g) == Cardinality(DOMAIN g)

\* initialize_graph: one vertex per city, in order, with no connections
initialize_graph(cities) ==
    [i \in 0 .. Len(cities) - 1 |-> [position |-> cities[i + 1], connections |-> << >>]]

\* glm::distance(from, to) squared, times Radius^2
Dist2(p, q) ==
    (p[1] - q[1]) * (p[1] - q[1]) + (p[2] - q[2]) * (p[2] - q[2])
        + (p[3] - q[3]) * (p[3] - q[3])

\* d < min_distance
Near(p, q) == MinDistDen * MinDistDen * Dist2(p, q) < MinDistNum * MinDistNum * Radius * Radius

\* ConnectionsFrom storing j + 1 as the target (an off-by-one index)
RECURSIVE ConnectionsFromOffByOne(_, _, _, _)
ConnectionsFromOffByOne(g, i, j, draws) ==
    IF j >= Size(g) THEN << >>
    ELSE IF i = j THEN ConnectionsFromOffByOne(g, i, j + 1, draws)
    ELSE IF Near(g[i].position, g[j].position)
         THEN <<[active |-> <<i, j>> \in draws, elapsed |-> 0, target_vertex |-> j + 1]>>
                  \o ConnectionsFromOffByOne(g, i, j + 1, draws)
         ELSE ConnectionsFromOffByOne(g, i, j + 1, draws)

\* ConnectionsFrom without `if (i == j) continue;`
RECURSIVE ConnectionsFromNoSelfTest(_, _, _, _)
ConnectionsFromNoSelfTest(g, i, j, draws) ==
    IF j >= Size(g) THEN << >>
    ELSE IF Near(g[i].position, g[j].position)
         THEN <<[active |-> <<i, j>> \in draws, elapsed |-> 0, target_vertex |-> j]>>
                  \o ConnectionsFromNoSelfTest(g, i, j + 1, draws)
         ELSE ConnectionsFromNoSelfTest(g, i, j + 1, draws)

\* the inner loop of initialize_connections for vertex i, from j on: the
\* connections pushed to graph_[i], in order.  draws is the set of (i, j)
\* for which (std::rand() % 150) == 0.
RECURSIVE ConnectionsFrom(_, _, _, _)
ConnectionsFrom(g, i, j, draws) ==
    IF j >= Size(g) THEN << >>
    ELSE IF i = j THEN ConnectionsFrom(g, i, j + 1, draws)
    ELSE IF Near(g[i].position, g[j].position)
         THEN <<[active |-> <<i, j>> \in draws, elapsed |-> 0, target_vertex |-> j]>>
                  \o ConnectionsFrom(g, i, j + 1, draws)
         ELSE ConnectionsFrom(g, i, j + 1, draws)

\* initialize_connections leaving a stale progress value in every edge
initialize_connectionsStaleElapsed(g, draws) ==
    [i \in DOMAIN g |->
        [g[i] EXCEPT !.connections =
            LET cs == ConnectionsFrom(g, i, 0, draws)
            IN  [c \in 1 .. Len(cs) |-> [cs[c] EXCEPT !.elapsed = STEP]]]]

\* initialize_connections
initialize_connections(g, draws) ==
    [i \in DOMAIN g |-> [g[i] EXCEPT !.connections = ConnectionsFrom(g, i, 0, draws)]]

\* the (i, j) for which initialize_connections draws rand()
DrawPairs(cities) ==
    {p \in (0 .. Len(cities) - 1) \X (0 .. Len(cities) - 1) :
        p[1] # p[2] /\ Near(cities[p[1] + 1], cities[p[2] + 1])}

-----------------------------------------------------------------------------
(* step_connections *)

\* Activate without the `if (++activated == 3) break;`
RECURSIVE ActivateNoBudget(_, _, _, _)
ActivateNoBudget(conns, k, activated, hit) ==
    IF k > Len(conns) THEN [conns |-> conns, hit |-> hit]
    ELSE IF ~conns[k].active
         THEN ActivateNoBudget([conns EXCEPT ![k].active = TRUE], k + 1, activated + 1,
                               Append(hit, k))
         ELSE ActivateNoBudget(conns, k + 1, activated, hit)

\* the scan of the target's connections (lines 284-293), from position k on
RECURSIVE Activate(_, _, _, _)
Activate(conns, k, activated, hit) ==
    IF k > Len(conns) THEN [conns |-> conns, hit |-> hit]
    ELSE IF ~conns[k].active
         THEN LET c2 == [conns EXCEPT ![k].active = TRUE]
              IN  IF activated + 1 = MaxActivated
                  THEN [conns |-> c2, hit |-> Append(hit, k)]
                  ELSE Activate(c2, k + 1, activated + 1, Append(hit, k))
         ELSE Activate(conns, k + 1, activated, hit)

\* the increment scaled by the frame's dt
AdvanceElapsedScaled(e) == AddStep(e) + (dt - 1) * STEP

\* the increment applied twice
AdvanceElapsedTwice(e) == AddStep(AddStep(e))

\* conn->elapsed += 0.02
AdvanceElapsed(e) == AddStep(e)

\* Skipped without the test !conn->active
SkippedNoActiveTest(conn) == conn.elapsed >= ONE

\* Skipped without the test conn->elapsed >= 1.0
SkippedNoTerminal(conn) == ~conn.active

\* !conn->active || conn->elapsed >= 1.0
Skipped(conn) == ~conn.active \/ conn.elapsed >= ONE

\* the loops of step_connections with the completion test outside the skip
\* test: a completed edge is not advanced but runs the scan in every tick
RECURSIVE StepFromRescanning(_, _, _, _)
StepFromRescanning(g, v, c, log) ==
    IF v >= Size(g) THEN [graph |-> g, cascades |-> log]
    ELSE IF c > Len(g[v].connections) THEN StepFromRescanning(g, v + 1, 1, log)
    ELSE LET conn == g[v].connections[c]
         IN  IF ~conn.active THEN StepFromRescanning(g, v, c + 1, log)
             ELSE LET e2 == IF conn.elapsed >= ONE THEN conn.elapsed
                            ELSE AdvanceElapsed(conn.elapsed)
                      g1 == [g EXCEPT ![v].connections[c].elapsed = e2]
                  IN  IF e2 >= ONE
                      THEN LET t  == conn.target_vertex
                               r  == Activate(g1[t].connections, 1, 0, << >>)
                               g2 == [g1 EXCEPT ![t].connections = r.conns]
                           IN  StepFromRescanning(g2, v, c + 1,
                                   Append(log, [source |-> v, conn |-> c, target |-> t,
                                                before |-> g1[t].connections,
                                                after |-> r.conns,
                                                activated |-> r.hit]))
                      ELSE StepFromRescanning(g1, v, c + 1, log)

\* the two nested loops of step_connections from connection c of vertex v on;
\* log collects one record per cascade scan
RECURSIVE StepFrom(_, _, _, _)
StepFrom(g, v, c, log) ==
    IF v >= Size(g) THEN [graph |-> g, cascades |-> log]
    ELSE IF c > Len(g[v].connections) THEN StepFrom(g, v + 1, 1, log)
    ELSE LET conn == g[v].connections[c]
         IN  IF Skipped(conn) THEN StepFrom(g, v, c + 1, log)
             ELSE LET e2 == AdvanceElapsed(conn.elapsed)
                      g1 == [g EXCEPT ![v].connections[c].elapsed = e2]
                  IN  IF e2 >= ONE
                      THEN LET t  == conn.target_vertex
                               r  == Activate(g1[t].connections, 1, 0, << >>)
                               g2 == [g1 EXCEPT ![t].connections = r.conns]
                           IN  StepFrom(g2, v, c + 1,
                                   Append(log, [source |-> v, conn |-> c, target |-> t,
                                                before |-> g1[t].connections,
                                                after |-> r.conns,
                                                activated |-> r.hit]))
                      ELSE StepFrom(g1, v, c + 1, log)

\* step_connections that defers the first increment of every edge switched
\* on in this tick to the next tick, whatever the vertex order
step_connectionsDeferred(g) ==
    LET r == StepFrom(g, 0, 1, << >>)
    IN  [graph |->
            [v \in DOMAIN g |->
                [r.graph[v] EXCEPT !.connections =
                    [c \in 1 .. Len(g[v].connections) |->
                        IF g[v].connections[c].active
                        THEN r.graph[v].connections[c]
                        ELSE [r.graph[v].connections[c] EXCEPT !.elapsed = 0]]]],
         cascades |-> r.cascades]

\* step_connections
step_connections(g) == StepFrom(g, 0, 1, << >>)

-----------------------------------------------------------------------------
(* render *)

Call(op, a, b) == [op |-> op, a |-> a, b |-> b]

\* std::max_element(...)->elapsed over a non-empty connection list
RECURSIVE MaxElapsedFrom(_, _, _)
MaxElapsedFrom(connections, k, best) ==
    IF k > Len(connections) THEN best
    ELSE MaxElapsedFrom(connections, k + 1,
                        IF best < connections[k].elapsed THEN connections[k].elapsed ELSE best)

MaxElapsed(connections) == MaxElapsedFrom(connections, 2, connections[1].elapsed)

\* Contributes testing the active flags instead of the largest elapsed
ContributesIfActive(connections) ==
    /\ connections # << >>
    /\ \E k \in 1 .. Len(connections) : connections[k].active

\* the two `continue` tests of update_cities_mesh: the vertex is written
\* unless it has no connections or its largest elapsed == 0.f
Contributes(connections) ==
    /\ connections # << >>
    /\ MaxElapsed(connections) # 0

\* the loop of update_cities_mesh from vertex v on: the entries written
\* through vert_data, in order (vertex kept beside the entry for the log)
RECURSIVE CitiesFrom(_, _)
CitiesFrom(g, v) ==
    IF v >= Size(g) THEN << >>
    ELSE IF Contributes(g[v].connections)
         THEN <<[vertex |-> v, position |-> g[v].position,
                 alpha |-> Alpha(MaxElapsed(g[v].connections))]>> \o CitiesFrom(g, v + 1)
         ELSE CitiesFrom(g, v + 1)

\* update_cities_mesh returning before the unmap when nothing was written
update_cities_mesh_EarlyReturn(g) ==
    LET written == CitiesFrom(g, 0)
    IN  [count |-> Len(written),
         data  |-> [k \in 1 .. Len(written) |-> <<written[k].position, written[k].alpha>>],
         cmds  |-> IF written = << >> THEN <<Call("map", 0, 0)>>
                   ELSE <<Call("map", 0, 0)>>
                            \o [k \in 1 .. Len(written) |->
                                   Call("write", written[k].vertex, written[k].alpha)]
                            \o <<Call("unmap", 0, 0)>>]

\* update_cities_mesh: the count, the data written and the buffer calls
update_cities_mesh(g) ==
    LET written == CitiesFrom(g, 0)
    IN  [count |-> Len(written),
         data  |-> [k \in 1 .. Len(written) |-> <<written[k].position, written[k].alpha>>],
         cmds  |-> <<Call("map", 0, 0)>>
                       \o [k \in 1 .. Len(written) |->
                              Call("write", written[k].vertex, written[k].alpha)]
                       \o <<Call("unmap", 0, 0)>>]

\* render_planet: the globe drawn twice (cull back, then cull front)
render_planet == <<Call("draw_globe", 0, 0), Call("draw_globe", 1, 0)>>

\* EdgeDrawsFrom passing the local tex_offset = 0.5f * cur_time_ of line 227
\* instead of conn->elapsed
RECURSIVE EdgeDrawsFromTimeOffset(_, _, _)
EdgeDrawsFromTimeOffset(g, v, c) ==
    IF v >= Size(g) THEN << >>
    ELSE IF c > Len(g[v].connections) THEN EdgeDrawsFromTimeOffset(g, v + 1, 1)
    ELSE IF g[v].connections[c].active
         THEN <<Call("tex_offset", (ONE \div 240) * cur_time, 0), Call("draw_edge", v, c)>>
                  \o EdgeDrawsFromTimeOffset(g, v, c + 1)
         ELSE EdgeDrawsFromTimeOffset(g, v, c + 1)

\* the loops of render_connections from connection c of vertex v on
RECURSIVE EdgeDrawsFrom(_, _, _)
EdgeDrawsFrom(g, v, c) ==
    IF v >= Size(g) THEN << >>
    ELSE IF c > Len(g[v].connections) THEN EdgeDrawsFrom(g, v + 1, 1)
    ELSE IF g[v].connections[c].active
         THEN <<Call("tex_offset", g[v].connections[c].elapsed, 0), Call("draw_edge", v, c)>>
                  \o EdgeDrawsFrom(g, v, c + 1)
         ELSE EdgeDrawsFrom(g, v, c + 1)

\* render_connections without the closing glDepthMask(GL_TRUE)
render_connectionsNoRestore(g, count) ==
    <<Call("depth_mask", 0, 0), Call("draw_points", count, 0)>>
        \o EdgeDrawsFrom(g, 0, 1)

\* render_connections
render_connections(g, count) ==
    <<Call("depth_mask", 0, 0), Call("draw_points", count, 0)>>
        \o EdgeDrawsFrom(g, 0, 1)
        \o <<Call("depth_mask", 1, 0)>>

\* render returning at once when no vertex has a connection
render_SkipWithoutEdges(g) ==
    LET u == update_cities_mesh(g)
    IN  IF \A v \in DOMAIN g : g[v].connections = << >>
        THEN [count |-> 0, data |-> << >>, cmds |-> << >>]
        ELSE [count |-> u.count,
              data  |-> u.data,
              cmds  |-> u.cmds
                         \o <<Call("blur_bind", 0, 0), Call("clear", 0, 0)>>
                         \o render_planet \o render_connections(g, u.count)
                         \o <<Call("unbind", 0, 0), Call("clear", 0, 0)>>
                         \o render_planet \o render_connections(g, u.count)
                         \o <<Call("blur_render", 0, 0)>>]

\* render (GLOW is defined): the calls in program order
render(g) ==
    LET u == update_cities_mesh(g)
    IN  [count |-> u.count,
         data  |-> u.data,
         cmds  |-> u.cmds
                    \o <<Call("blur_bind", 0, 0), Call("clear", 0, 0)>>
                    \o render_planet \o render_connections(g, u.count)
                    \o <<Call("unbind", 0, 0), Call("clear", 0, 0)>>
                    \o render_planet \o render_connections(g, u.count)
                    \o <<Call("blur_render", 0, 0)>>]

\* the backend's state: glDepthMask sets the depth-write flag, map/unmap the
\* mapping of the city buffer.  Each call is logged with the state it is
\* issued in.
RECURSIVE Issue(_, _, _, _)
Issue(cmds, k, depth, mapped) ==
    IF k > Len(cmds) THEN << >>
    ELSE LET cmd == cmds[k]
         IN  <<[op |-> cmd.op, a |-> cmd.a, b |-> cmd.b, depth |-> depth, mapped |-> mapped]>>
                 \o Issue(cmds, k + 1,
                          IF cmd.op = "depth_mask" THEN cmd.a = 1 ELSE depth,
                          IF cmd.op = "map" THEN TRUE
                          ELSE IF cmd.op = "unmap" THEN FALSE ELSE mapped)

\* the depth-write flag after the calls cs, issued with the flag at depth
RECURSIVE DepthAfter(_, _, _)
DepthAfter(cmds, k, depth) ==
    IF k > Len(cmds) THEN depth
    ELSE DepthAfter(cmds, k + 1, IF cmds[k].op = "depth_mask" THEN cmds[k].a = 1 ELSE depth)

\* what render reads of the graph: every connection's active and elapsed
EdgeState(g) ==
    [v \in DOMAIN g |->
        [c \in 1 .. Len(g[v].connections) |->
            [active |-> g[v].connections[c].active, elapsed |-> g[v].connections[c].elapsed]]]

-----------------------------------------------------------------------------
(* render_and_step and the frame loop of main() *)

\* render_and_step with the tick placed before the render
PhaseOrderStepFirst == <<"step", "render", "time">>

\* render_and_step: render(); step_connections(); cur_time_ += dt;
PhaseOrder == <<"render", "step", "time">>

\* the frame loop runs on (DUMP_FRAMES stops it after total_frames)
Running ==
    /\ frame_num < MaxFrames
    /\ dt = DtDump => frame_num < total_frames

AtPhase(p) ==
    /\ PhaseOrder[pc] = p
    /\ pc = 1 => Running

NextPc == IF pc = Len(PhaseOrder) THEN 1 ELSE pc + 1

\* values an int never assigned may hold (num_active_cities_ before the first render)
Indeterminate == {-1, 0}

\* the edges of g, as (vertex, position in the vertex's stored order)
Edges(g) == UNION {{<<v, c>> : c \in 1 .. Len(g[v].connections)} : v \in DOMAIN g}

\* the number of scans of a log run by edge e
RECURSIVE ScansBy(_, _)
ScansBy(log, e) ==
    IF log = << >> THEN 0
    ELSE (IF <<Head(log).source, Head(log).conn>> = e THEN 1 ELSE 0)
             + ScansBy(Tail(log), e)

\* the number of edges switched on by the scans of a log run by edge e
RECURSIVE CausedBy(_, _)
CausedBy(log, e) ==
    IF log = << >> THEN 0
    ELSE (IF <<Head(log).source, Head(log).conn>> = e
          THEN Len(Head(log).activated) ELSE 0)
             + CausedBy(Tail(log), e)

Init ==
    \E cities \in CityLists :
        \E draws \in SUBSET DrawPairs(cities) :
            /\ Cardinality(draws) <= MaxSeeds
            /\ graph = initialize_connections(initialize_graph(cities), draws)
            /\ seeds = draws
            /\ expect = graph
            /\ shown = EdgeState(graph)
            /\ cur_time = 0
            /\ num_active_cities \in Indeterminate
            /\ cities_data = << >>
            /\ depth_mask = TRUE
            /\ calls = << >>
            /\ cascades = << >>
            /\ pc = 1
            /\ frame_num = 0
            /\ ticks = 0
            /\ scanned = [e \in Edges(graph) |->
                             [since  |-> IF graph[e[1]].connections[e[2]].active
                                         THEN <<0>> ELSE << >>,
                              ticks  |-> << >>,
                              scans  |-> 0,
                              caused |-> 0]]
            /\ dt \in {DtDefault, DtDump}

\* Render that also clamps every elapsed to 1.0 in the graph (a clamp on
\* write placed in the render pass)
RenderClamping ==
    /\ AtPhase("render")
    /\ LET r == render(graph)
       IN  /\ num_active_cities' = r.count
           /\ cities_data' = r.data
           /\ calls' = Issue(r.cmds, 1, depth_mask, FALSE)
           /\ depth_mask' = DepthAfter(r.cmds, 1, depth_mask)
    /\ shown' = EdgeState(graph)
    /\ graph' = [v \in DOMAIN graph |->
                    [graph[v] EXCEPT !.connections =
                        [c \in 1 .. Len(graph[v].connections) |->
                            [graph[v].connections[c] EXCEPT
                                !.elapsed = IF @ > ONE THEN ONE ELSE @]]]]
    /\ pc' = NextPc
    /\ UNCHANGED <<cur_time, cascades, frame_num, dt, seeds, expect, ticks, scanned>>

Render ==
    /\ AtPhase("render")
    /\ LET r == render(graph)
       IN  /\ num_active_cities' = r.count
           /\ cities_data' = r.data
           /\ calls' = Issue(r.cmds, 1, depth_mask, FALSE)
           /\ depth_mask' = DepthAfter(r.cmds, 1, depth_mask)
    /\ shown' = EdgeState(graph)
    /\ pc' = NextPc
    /\ UNCHANGED <<graph, cur_time, cascades, frame_num, dt, seeds, expect, ticks,
                   scanned>>

Step ==
    /\ AtPhase("step")
    /\ LET r == step_connections(graph)
       IN  /\ graph' = r.graph
           /\ cascades' = r.cascades
           /\ scanned' = [e \in DOMAIN scanned |->
                             [since  |-> IF /\ scanned[e].since = << >>
                                            /\ r.graph[e[1]].connections[e[2]].active
                                         THEN <<ticks + 1>> ELSE scanned[e].since,
                              ticks  |-> scanned[e].ticks
                                            \o (IF ScansBy(r.cascades, e) > 0
                                                THEN <<ticks + 1>> ELSE << >>),
                              scans  |-> scanned[e].scans + ScansBy(r.cascades, e),
                              caused |-> scanned[e].caused + CausedBy(r.cascades, e)]]
    /\ ticks' = ticks + 1
    /\ pc' = NextPc
    /\ UNCHANGED <<cur_time, num_active_cities, cities_data, depth_mask, calls,
                   frame_num, dt, seeds, expect, shown>>

AdvanceTime ==
    /\ AtPhase("time")
    /\ cur_time' = cur_time + dt
    /\ frame_num' = frame_num + 1
    /\ expect' = step_connections(expect).graph
    /\ pc' = NextPc
    /\ UNCHANGED <<graph, num_active_cities, cities_data, depth_mask, calls,
                   cascades, dt, seeds, shown, ticks, scanned>>

Next == Render \/ Step \/ AdvanceTime

Spec == Init /\ [][Next]_vars

-----------------------------------------------------------------------------
(* Vocabulary of the properties *)


Conn(g, e) == g[e[1]].connections[e[2]]

\* a transition that is one call of step_connections
IsTick == PhaseOrder[pc] = "step" /\ ticks' = ticks + 1

\* the positions of conns that are inactive
Inactive(conns) == {k \in 1 .. Len(conns) : ~conns[k].active}

\* the first (up to) three inactive positions of conns, in stored order
FirstThreeInactive(conns) ==
    {k \in Inactive(conns) : Cardinality({m \in Inactive(conns) : m < k}) < 3}

Range(seq) == {seq[k] : k \in 1 .. Len(seq)}

TwoVertexGraph ==
    /\ Size(graph) = 2
    /\ Len(graph[0].connections) = 1 /\ graph[0].connections[1].target_vertex = 1
    /\ Len(graph[1].connections) = 1 /\ graph[1].connections[1].target_vertex = 0

-----------------------------------------------------------------------------
(* C1: cascade rule *)

\* every cascade scan of the last tick switched on exactly the first
\* min(3, k) inactive connections of the target, in stored order, and
\* changed nothing else there
CascadeScans ==
    \A n \in 1 .. Len(cascades) :
        LET ev == cascades[n]
            k  == Cardinality(Inactive(ev.before))
        IN  /\ Range(ev.activated) = FirstThreeInactive(ev.before)
            /\ Len(ev.activated) = IF k < 3 THEN k ELSE 3
            /\ \A m \in 1 .. Len(ev.activated) - 1 : ev.activated[m] < ev.activated[m + 1]
            /\ Len(ev.after) = Len(ev.before)
            /\ \A m \in 1 .. Len(ev.before) :
                /\ ev.after[m].active =
                       (ev.before[m].active \/ m \in FirstThreeInactive(ev.before))
                /\ ev.after[m].elapsed = ev.before[m].elapsed
                /\ ev.after[m].target_vertex = ev.before[m].target_vertex

\* a tick scans once for every edge whose elapsed reaches 1.0 in it, at that
\* edge's target, and for no other edge
CascadeTrigger ==
    IsTick =>
        /\ \A e \in Edges(graph) :
             Cardinality({n \in 1 .. Len(cascades') :
                             <<cascades'[n].source, cascades'[n].conn>> = e})
                 = IF Conn(graph, e).elapsed < ONE /\ Conn(graph', e).elapsed >= ONE
                   THEN 1 ELSE 0
        /\ \A n \in 1 .. Len(cascades') :
             /\ <<cascades'[n].source, cascades'[n].conn>> \in Edges(graph)
             /\ cascades'[n].target
                    = Conn(graph, <<cascades'[n].source, cascades'[n].conn>>).target_vertex

\* C1: on the tick in which an edge's elapsed first reaches 1.0, the target's
\* outgoing edges are scanned in stored order and exactly the first min(3, k)
\* inactive ones become active; active ones are untouched and not counted
C1_CascadeRule == [][CascadeTrigger]_vars /\ []CascadeScans

\* a scan that found four inactive edges at the target and switched on three
C1_Witness ==
    \E n \in 1 .. Len(cascades) :
        /\ Cardinality(Inactive(cascades[n].before)) = 4
        /\ Len(cascades[n].activated) = 3

-----------------------------------------------------------------------------
(* C2: the two-vertex scenario *)

SeededEdge == IF seeds = {<<0, 1>>} THEN <<0, 1>> ELSE <<1, 1>>
OtherEdge  == IF seeds = {<<0, 1>>} THEN <<1, 1>> ELSE <<0, 1>>

-----------------------------------------------------------------------------
(* C3: edge lifecycle monotonicity *)

EdgeMonotone ==
    /\ DOMAIN graph' = DOMAIN graph
    /\ Edges(graph') = Edges(graph)
    /\ \A e \in Edges(graph) :
        /\ Conn(graph, e).active => Conn(graph', e).active
        /\ Conn(graph', e).elapsed >= Conn(graph, e).elapsed
        /\ Conn(graph, e).elapsed >= ONE => Conn(graph', e).elapsed = Conn(graph, e).elapsed

\* C3: active never goes back to false, elapsed never decreases, and an
\* elapsed that has reached 1.0 never changes again
C3_LifecycleMonotone == [][EdgeMonotone]_vars

\* a completed edge beside an edge that the ticks are still advancing
C3_Witness ==
    /\ PhaseOrder[pc] = "render" /\ ticks >= 60
    /\ \E e \in Edges(graph) : Conn(graph, e).elapsed >= ONE
    /\ \E e \in Edges(graph) : Conn(graph, e).active /\ Conn(graph, e).elapsed < ONE
                                  /\ Conn(graph, e).elapsed > 0

-----------------------------------------------------------------------------
(* C4: clamped reads *)

\* C4: every elapsed handed to a consumer in a frame -- each tex_offset set by
\* render_connections, each elapsed update_cities_mesh read -- is at most 1.0
C4_ClampedReads ==
    /\ \A k \in 1 .. Len(calls) : calls[k].op = "tex_offset" => calls[k].a <= ONE
    /\ calls # << >> =>
         \A v \in DOMAIN shown : \A c \in 1 .. Len(shown[v]) : shown[v][c].elapsed <= ONE

-----------------------------------------------------------------------------
(* C5: render before tick *)

\* render / step_connections has run in the current frame
Rendered == \E k \in 1 .. pc - 1 : PhaseOrder[k] = "render"
Stepped  == \E k \in 1 .. pc - 1 : PhaseOrder[k] = "step"

DrawnEdges == {<<calls[k].a, calls[k].b>> : k \in {m \in 1 .. Len(calls) : calls[m].op = "draw_edge"}}

\* C5: the render of frame k reads the graph before that frame's tick, so it
\* shows the seeded state advanced by k-1 ticks (expect), and each frame
\* ticks exactly once
C5_RenderBeforeTick ==
    /\ ticks = frame_num + (IF Stepped THEN 1 ELSE 0)
    /\ Stepped => Rendered
    /\ Rendered =>
         /\ shown = EdgeState(expect)
         /\ DrawnEdges = {e \in Edges(expect) : Conn(expect, e).active}
         /\ cities_data = update_cities_mesh(expect).data
         /\ num_active_cities = update_cities_mesh(expect).count

\* the frame rendered right after the 51st tick: it shows the edges that
\* tick's cascade switched on
C5_Witness ==
    /\ Rendered /\ ~Stepped /\ frame_num = 51
    /\ \E e \in DrawnEdges : <<e[1], Conn(graph, e).target_vertex>> \notin seeds

-----------------------------------------------------------------------------
(* C6: scoped buffer mapping *)

At(op) == {k \in 1 .. Len(calls) : calls[k].op = op}
Draws == At("draw_globe") \cup At("draw_points") \cup At("draw_edge")

\* C6: each frame maps the city buffer once and unmaps it once, writes only
\* while it is mapped, and issues every draw after the unmap
C6_ScopedMapping ==
    calls # << >> =>
        /\ Cardinality(At("map")) = 1
        /\ Cardinality(At("unmap")) = 1
        /\ \A k \in At("map") : ~calls[k].mapped
        /\ \A k \in At("unmap") : calls[k].mapped
        /\ \A k \in At("write") : calls[k].mapped
        /\ \A k \in Draws : ~calls[k].mapped
        /\ \A k \in Draws : \A u \in At("unmap") : u < k
        /\ Draws # {}

\* a frame of a non-empty graph in which no vertex is lit, with edges drawn
C6_Witness ==
    /\ calls # << >>
    /\ At("write") = {}
    /\ At("draw_edge") # {}

-----------------------------------------------------------------------------
(* C7: the count of the dynamic vertex producer *)

\* the vertices with an outgoing edge whose largest elapsed is > 0, in the
\* state the last render read
Lit == {v \in DOMAIN shown : \E c \in 1 .. Len(shown[v]) : shown[v][c].elapsed > 0}

\* C7: num_active_cities is the number of vertices with an outgoing edge and
\* largest outgoing elapsed > 0; as many entries are written, at most one per
\* vertex; a vertex without outgoing edges is never written
C7_ProducerCount ==
    calls # << >> =>
        /\ num_active_cities = Cardinality(Lit)
        /\ Len(cities_data) = num_active_cities
        /\ Cardinality(At("write")) = num_active_cities
        /\ {calls[k].a : k \in At("write")} = Lit
        /\ num_active_cities <= Size(graph)
        /\ \A k \in At("write") : graph[calls[k].a].connections # << >>

\* three cities lit in the graph that holds a city without edges
C7_Witness ==
    /\ calls # << >>
    /\ num_active_cities >= 3
    /\ \E v \in DOMAIN graph : graph[v].connections = << >>
    /\ \E v \in DOMAIN graph : graph[v].connections # << >> /\ v \notin Lit

-----------------------------------------------------------------------------
(* C8: graph construction *)

\* distance(p, q) < 0.75 for unit vectors p/7, q/7: 16 |p - q|^2 < 441
BelowThreshold(p, q) == 16 * Dist2(p, q) < 441

EdgesTo(i, j) ==
    {c \in 1 .. Len(graph[i].connections) : graph[i].connections[c].target_vertex = j}

\* C8: exactly one edge i->j for distinct i, j closer than the threshold, no
\* other edge, no self-loop, and i->j exists iff j->i exists
C8_GraphConstruction ==
    \A i \in DOMAIN graph : \A j \in DOMAIN graph :
        /\ Cardinality(EdgesTo(i, j))
               = IF i # j /\ BelowThreshold(graph[i].position, graph[j].position)
                 THEN 1 ELSE 0
        /\ EdgesTo(i, i) = {}
        /\ EdgesTo(i, j) # {} <=> EdgesTo(j, i) # {}

\* six cities: a hub with four edges, pairs beyond the threshold, a city
\* without edges
C8_Witness ==
    /\ Size(graph) = 6
    /\ \E i \in DOMAIN graph : Len(graph[i].connections) = 4
    /\ \E i \in DOMAIN graph : graph[i].connections = << >>

-----------------------------------------------------------------------------
(* C9: activation has only two causes *)

\* the edges whose elapsed reaches 1.0 in this transition
Completing == {f \in Edges(graph) : Conn(graph, f).elapsed < ONE /\ Conn(graph', f).elapsed >= ONE}

ActivationCause ==
    /\ Edges(graph') = Edges(graph)
    /\ \A e \in Edges(graph) :
         (~Conn(graph, e).active /\ Conn(graph', e).active) =>
             /\ IsTick
             /\ \E f \in Completing : Conn(graph, f).target_vertex = e[1]

NoSeedNoActivity ==
    seeds = {} =>
        /\ \A e \in Edges(graph) : ~Conn(graph, e).active /\ Conn(graph, e).elapsed = 0
        /\ calls # << >> =>
             /\ num_active_cities = 0
             /\ At("draw_edge") = {}
             /\ \A k \in At("draw_points") : calls[k].a = 0

\* C9: an edge turns active in a tick only at the target of an edge completing
\* in that tick; with no seeded edge nothing ever turns active, no elapsed
\* leaves 0, and every frame reports no active city and draws no edge
C9_ActivationCauses == [][ActivationCause]_vars /\ []NoSeedNoActivity

\* a tick whose cascade has switched an edge on
C9_Witness ==
    \E n \in 1 .. Len(cascades) :
        /\ cascades[n].activated # << >>
        /\ Conn(graph, <<cascades[n].target, cascades[n].activated[1]>>).active

-----------------------------------------------------------------------------
(* C10: no skipped increments, no dt scaling *)

TickAdvance ==
    /\ IsTick =>
         \A e \in Edges(graph) :
             (Conn(graph, e).active /\ Conn(graph, e).elapsed < ONE) =>
                 /\ Conn(graph', e).elapsed = AddStep(Conn(graph, e).elapsed)
                 /\ Conn(graph', e).elapsed - Conn(graph, e).elapsed \in (STEP - 32) .. (STEP + 32)
    /\ cur_time' # cur_time => (graph' = graph /\ cur_time' = cur_time + dt)
    /\ graph' # graph => cur_time' = cur_time

-----------------------------------------------------------------------------
(* C11: frame conditions on the graph *)

\* what initialization fixes: every vertex's position and, in stored order,
\* the target of each of its edges
Topology(g) ==
    [v \in DOMAIN g |->
        [position |-> g[v].position,
         targets  |-> [c \in 1 .. Len(g[v].connections) |-> g[v].connections[c].target_vertex]]]

FrameConditions ==
    /\ Topology(graph') = Topology(graph)
    /\ EdgeState(graph') # EdgeState(graph) => IsTick
    /\ calls' # calls => graph' = graph

\* C11: after initialization the edges, their sources, targets and stored
\* order and the positions never change; render leaves every active and
\* elapsed unchanged; only step_connections changes them
C11_FrameConditions == [][FrameConditions]_vars

\* a frame rendered over a graph that holds a completed edge (elapsed past
\* 1.0) and edges still advancing
C11_Witness ==
    /\ Rendered /\ ~Stepped /\ frame_num >= 52
    /\ \E e \in Edges(graph) : Conn(graph, e).elapsed > ONE
    /\ \E e \in Edges(graph) : Conn(graph, e).active /\ Conn(graph, e).elapsed < ONE

-----------------------------------------------------------------------------
(* C12: valid edge targets *)

\* C12: every edge's target_vertex is an index 0..N-1 of the graph other than
\* its source, so graph_[conn->target_vertex] in step_connections is in range
C12_ValidTargets ==
    /\ \A e \in Edges(graph) :
         /\ Conn(graph, e).target_vertex \in 0 .. Size(graph) - 1
         /\ Conn(graph, e).target_vertex # e[1]
    /\ \A n \in 1 .. Len(cascades) : cascades[n].target \in DOMAIN graph

\* a tick of the six-city graph that looked up the target of a completing
\* edge and scanned it
C12_Witness ==
    /\ Size(graph) = 6
    /\ cascades # << >>
    /\ \E n \in 1 .. Len(cascades) : Len(cascades[n].before) = 4

-----------------------------------------------------------------------------
(* C13: edge draws track the active flag *)

\* the calls of the glow pass (between blur_.bind() and framebuffer::unbind())
\* and of the final pass (after the unbind)
PassA == {k \in 1 .. Len(calls) :
             /\ \E b \in At("blur_bind") : b < k
             /\ \E u \in At("unbind") : k < u}
PassB == {k \in 1 .. Len(calls) : \E u \in At("unbind") : u < k}

\* the tex_offset uniform in effect at call k: the value of the last
\* set_uniform("tex_offset") before it (-1 when none was set)
TexOffsetAt(k) ==
    LET set == {m \in At("tex_offset") : m < k}
    IN  IF set = {} THEN -1
        ELSE calls[CHOOSE m \in set : \A n \in set : n <= m].a

TracksActive(pass) ==
    /\ \A v \in DOMAIN shown : \A c \in 1 .. Len(shown[v]) :
         Cardinality({k \in pass : calls[k].op = "draw_edge" /\ calls[k].a = v /\ calls[k].b = c})
             = IF shown[v][c].active THEN 1 ELSE 0
    /\ \A k \in pass :
         calls[k].op = "draw_edge" =>
             /\ calls[k].a \in DOMAIN shown
             /\ calls[k].b \in 1 .. Len(shown[calls[k].a])
             /\ TexOffsetAt(k) = shown[calls[k].a][calls[k].b].elapsed
    /\ Cardinality({k \in pass : calls[k].op = "draw_points"}) = 1
    /\ \A k \in pass :
         calls[k].op = "draw_points" =>
             calls[k].a = Cardinality(At("write")) /\ calls[k].a = num_active_cities

\* C13: in each pass of every frame render_connections draws every edge whose
\* active flag is set exactly once (also at elapsed 0) and no inactive edge,
\* each with tex_offset set to its own elapsed, and draws as many city points
\* as update_cities_mesh wrote in that frame
C13_DrawsTrackActive ==
    calls # << >> =>
        /\ Cardinality(At("blur_bind")) = 1 /\ Cardinality(At("unbind")) = 1
        /\ TracksActive(PassA)
        /\ TracksActive(PassB)
        /\ At("draw_edge") \subseteq PassA \cup PassB

\* a frame that draws an active edge at elapsed 0 and a completed one and
\* leaves an inactive edge out
C13_Witness ==
    /\ calls # << >>
    /\ \E k \in At("draw_edge") : TexOffsetAt(k) = 0
    /\ \E k \in At("draw_edge") : TexOffsetAt(k) > ONE
    /\ \E v \in DOMAIN shown : \E c \in 1 .. Len(shown[v]) : ~shown[v][c].active

-----------------------------------------------------------------------------
(* C14: city intensity *)

\* the k-th vertex of Lit in index order
KthLit(k) == CHOOSE v \in Lit : Cardinality({u \in Lit : u < v}) = k - 1

\* the largest elapsed among the edges of v in the state the render read
MaxShown(v) ==
    LET vals == {shown[v][c].elapsed : c \in 1 .. Len(shown[v])}
    IN  CHOOSE m \in vals : \A x \in vals : x <= m

\* C14: the entries written are, in vertex-index order and without gaps, the
\* lit vertices' (position, min(1, 2m)) with m the vertex's largest outgoing
\* elapsed; every intensity lies in (0, 1]
C14_CityIntensity ==
    calls # << >> =>
        /\ Len(cities_data) = Cardinality(Lit)
        /\ \A k \in 1 .. Len(cities_data) :
             /\ cities_data[k][1] = graph[KthLit(k)].position
             /\ cities_data[k][2] =
                    IF 2 * MaxShown(KthLit(k)) <= ONE THEN 2 * MaxShown(KthLit(k)) ELSE ONE
             /\ cities_data[k][2] > 0
             /\ cities_data[k][2] <= ONE

\* entries at full and at partial intensity, written around a vertex that is
\* not lit
C14_Witness ==
    /\ calls # << >>
    /\ \E k \in 1 .. Len(cities_data) : cities_data[k][2] = ONE
    /\ \E k \in 1 .. Len(cities_data) : cities_data[k][2] < ONE
    /\ \E u \in Lit : \E w \in Lit : \E v \in DOMAIN shown : u < v /\ v < w /\ v \notin Lit

-----------------------------------------------------------------------------
(* C15: depth-write discipline *)

\* C15: in every pass depth writing is on at the clear and at both globe
\* draws and off at the city-points draw and at every edge draw, and
\* render_connections leaves it on, for the next pass and the next frame
C15_DepthDiscipline ==
    /\ depth_mask = TRUE
    /\ calls # << >> =>
         /\ \A k \in At("draw_globe") \cup At("clear") : calls[k].depth
         /\ \A k \in At("draw_points") \cup At("draw_edge") : ~calls[k].depth
         /\ Cardinality(At("draw_globe")) = 4
         /\ Cardinality(At("clear")) = 2
         /\ \A k \in At("depth_mask") :
              calls[k].a = 0 =>
                  \E m \in At("depth_mask") :
                      /\ k < m /\ calls[m].a = 1
                      /\ \A n \in At("draw_globe") \cup At("clear") : ~(k < n /\ n < m)

\* a later frame whose two passes each drew edges with depth writing off
C15_Witness ==
    /\ frame_num >= 1
    /\ \E k \in At("draw_edge") \cap PassA : ~calls[k].depth
    /\ \E k \in At("draw_edge") \cap PassB : ~calls[k].depth
    /\ \E k \in At("draw_globe") \cap PassB : calls[k].depth

-----------------------------------------------------------------------------
(* C16: degenerate input *)

NoEdges == \A v \in DOMAIN graph : graph[v].connections = << >>

DegenerateFrame ==
    NoEdges =>
        /\ cascades = << >>
        /\ graph = expect
        /\ (Rendered \/ frame_num >= 1) =>
             /\ num_active_cities = 0
             /\ cities_data = << >>
             /\ At("write") = {}
             /\ At("draw_edge") = {} /\ At("tex_offset") = {}
             /\ \A k \in At("draw_points") : calls[k].a = 0
             /\ Cardinality(At("draw_globe")) = 4
             /\ Cardinality(At("map")) = 1 /\ Cardinality(At("unmap")) = 1

\* C16: with no city, or with cities and no edge, every frame reports
\* num_active_cities = 0, touches no vertex or edge entry, draws no edge and
\* still draws the globe, and step_connections changes nothing
C16_DegenerateInput == []DegenerateFrame /\ [][NoEdges => graph' = graph]_vars

\* the empty city list, rendered and ticked
C16_Witness ==
    /\ Size(graph) = 0
    /\ Rendered /\ Stepped
    /\ frame_num >= 1

-----------------------------------------------------------------------------
(* C17: inactive edges carry no progress *)

InactiveAtZero ==
    \A e \in Edges(graph) : ~Conn(graph, e).active => Conn(graph, e).elapsed = 0

ActivatedFromZero ==
    \A k \in 1 .. Len(cascades) :
        \A h \in Range(cascades[k].activated) :
            /\ ~cascades[k].before[h].active
            /\ cascades[k].before[h].elapsed = 0
            /\ cascades[k].after[h].active
            /\ cascades[k].after[h].elapsed = 0

\* C17: every edge whose active flag is false has elapsed exactly 0, and an
\* edge switched on by a cascade scan has elapsed 0 when it is switched on
C17_InactiveAtZero == InactiveAtZero /\ ActivatedFromZero

\* a tick has just switched an edge on, which is active with elapsed 0,
\* and other edges are still inactive
C17_Witness ==
    /\ Stepped
    /\ \E k \in 1 .. Len(cascades) :
           \E h \in Range(cascades[k].activated) :
               LET c == graph[cascades[k].target].connections[h]
               IN  c.active /\ c.elapsed = 0
    /\ \E e \in Edges(graph) : ~Conn(graph, e).active

-----------------------------------------------------------------------------
(* C18: same-tick advancement depends on iteration order *)

\* the edges switched on by the scans of a log, as <<i, j, h>>: the completing
\* edge's source i, its target j, the edge h of j switched on
SwitchedOn(log) ==
    UNION {{<<log[k].source, log[k].target, h>> : h \in Range(log[k].activated)} :
               k \in 1 .. Len(log)}

SameTickAdvance ==
    IsTick =>
        /\ \A s \in SwitchedOn(cascades') :
               /\ s[1] # s[2]
               /\ Conn(graph', <<s[2], s[3]>>).elapsed = IF s[2] > s[1] THEN STEP ELSE 0
        /\ \A e \in Edges(graph) :
               Conn(graph, e).active /\ Conn(graph, e).elapsed = 0
                   => Conn(graph', e).elapsed = STEP

\* C18: an edge at vertex j switched on by the completion of an edge with
\* source i ends that tick with elapsed 0.02 when j > i and with elapsed 0
\* when j < i, and an active edge at elapsed 0 is at 0.02 after the next tick
C18_IterationOrder == [][SameTickAdvance]_vars

\* one tick has switched on an edge at a later vertex, now at 0.02, and an
\* edge at an earlier vertex, still at 0
C18_Witness ==
    /\ Stepped
    /\ \E s \in SwitchedOn(cascades) :
           s[2] > s[1] /\ Conn(graph, <<s[2], s[3]>>).elapsed = STEP
    /\ \E s \in SwitchedOn(cascades) :
           s[2] < s[1] /\ Conn(graph, <<s[2], s[3]>>).elapsed = 0

-----------------------------------------------------------------------------
(* C19: one cascade per edge *)

\* the edges with target j
Incoming(j) == {e \in Edges(graph) : Conn(graph, e).target_vertex = j}

\* the edges of vertex j switched on after construction
TransitionsAt(j) ==
    {c \in 1 .. Len(graph[j].connections) :
         /\ graph[j].connections[c].active
         /\ <<j, graph[j].connections[c].target_vertex>> \notin seeds}

OneScanPerEdge ==
    \A e \in Edges(graph) :
        /\ scanned[e].scans <= 1
        /\ Len(scanned[e].ticks) <= 1
        /\ scanned[e].scans = 1 <=> Conn(graph, e).elapsed >= ONE
        /\ scanned[e].caused <= MaxActivated

BoundedTransitions ==
    \A j \in DOMAIN graph :
        Cardinality(TransitionsAt(j)) <= MaxActivated * Cardinality(Incoming(j))

ScanAtFirstCompletion ==
    IsTick =>
        \A e \in Edges(graph) :
            Len(scanned'[e].ticks) > Len(scanned[e].ticks)
                => Conn(graph, e).elapsed < ONE /\ Conn(graph', e).elapsed >= ONE

\* C19: each edge runs the cascade scan in at most one tick, the tick in which
\* its elapsed first reaches 1.0; it switches on at most 3 edges over the whole
\* run, and the edges switched on at a vertex over the whole run number at
\* most 3 times the vertex's incoming edges
C19_OneCascadePerEdge ==
    []OneScanPerEdge /\ []BoundedTransitions /\ [][ScanAtFirstCompletion]_vars

\* long after its scan an edge has switched on 3 edges in its one scan, another
\* completed edge has switched on none, and a vertex has had 3 transitions
C19_Witness ==
    /\ \E e \in Edges(graph) :
           /\ scanned[e].scans = 1 /\ scanned[e].caused = MaxActivated
           /\ ticks >= scanned[e].ticks[1] + 60
    /\ \E e \in Edges(graph) : scanned[e].scans = 1 /\ scanned[e].caused = 0
    /\ \E j \in DOMAIN graph : Cardinality(TransitionsAt(j)) = MaxActivated

-----------------------------------------------------------------------------
(* C20: quiescence *)

\* every active edge is completed
Quiescent == \A e \in Edges(graph) : Conn(graph, e).active => Conn(graph, e).elapsed >= ONE

CompletedInTime ==
    \A e \in Edges(graph) :
        scanned[e].since # << >> /\ ticks >= scanned[e].since[1] + 50
            => Conn(graph, e).elapsed >= ONE

\* C20: every edge that becomes active, by seeding or by cascade, is completed
\* no later than 50 ticks after the tick in which it became active (tick 0
\* for a seeded edge), and once every active edge is completed
\* step_connections changes nothing
C20_Quiescence ==
    /\ CompletedInTime
    /\ Quiescent => step_connections(graph).graph = graph

====
